---------------------------- MODULE Spec2Model ----------------------------
(***************************************************************************)
(* A model of the gemini-proxy gateway: the three Flask applications       *)
(* src/app.py, src/index.py and src/server.py.  One of the three is the    *)
(* deployed module (variable app).  Every request handler is an action;    *)
(* ensure_ffmpeg of server.py, the only code that touches state shared     *)
(* between requests, is modelled statement by statement so that two        *)
(* request threads can interleave inside it.                               *)
(*                                                                         *)
(* Conventions.  A filesystem path <dir>/ffmpeg or <dir>/ffprobe is        *)
(* represented by its directory <dir>; Python's None is the string "None". *)
(* The outcome of everything outside the program (the network, the         *)
(* filesystem, the downloaded binary) is chosen by \E in the action that   *)
(* observes it.                                                            *)
(***************************************************************************)
EXTENDS Integers, Sequences, FiniteSets, TLC

None == "None"

\* The worker threads of the WSGI server.  The module import (and with it the
\* start-up call of ensure_ffmpeg, server.py line 122) runs on MainThread.
Threads == {"t1", "t2"}
MainThread == "t1"

Apps == {"app", "index", "server"}

\* server.py lines 45-49
possible_paths == <<"/var/task/ffmpeg", "/tmp/ffmpeg", "./ffmpeg">>
Dirs == {possible_paths[i] : i \in 1..Len(possible_paths)}

\* The directory the code itself calls temporary (server.py line 47); it is
\* the one the platform may clear while the process lives.
ScratchDir == "/tmp/ffmpeg"

\* ---- size ceilings of the handlers
MaxImageApp == 4000000
MaxImageIndex == 4000000
MaxImageServer == 3500000
MaxAudioFileApp == 10485760
MaxVideoServer == 4500000
MinVideoServer == 1000
MaxAudioServer == 8000000

VARIABLES
    app,                \* which module is deployed
    key,                \* GEMINI_API_KEY is set in the environment
    env,                \* "faulty": downloads, writes and the smoke test may fail
    dirMode,            \* per candidate directory: "nomkdir", "nowrite", "rw"
    phase,              \* "boot", "serving", "crashed"
    ffmpeg_initialized, \* server.py _ffmpeg_initialized
    ffmpeg_path,        \* server.py _ffmpeg_path (directory, or None)
    ffprobe_path,       \* server.py _ffprobe_path (directory, or None)
    converter,          \* pydub's AudioSegment.converter (directory, or None)
    fs,                 \* the candidate directories on disk
    pc,                 \* per thread: position in its handler
    req,                \* per thread: the request being handled
    resp,               \* per thread: the response produced for it
    log,                \* per thread: calls this request made out of the process
    idx,                \* per thread: loop index of ensure_ffmpeg (0 outside)
    wdir,               \* per thread: directory of the file it holds open "wb"
    ret,                \* per thread: what ensure_ffmpeg returned
    last                \* the last completed ensure_ffmpeg call: result, downloads

envVars == <<app, key, env, dirMode>>
globVars == <<ffmpeg_initialized, ffmpeg_path, ffprobe_path, converter>>
ensVars == <<idx, wdir, ret>>
reqVars == <<req, resp, log>>
vars == <<app, key, env, dirMode, phase, ffmpeg_initialized, ffmpeg_path,
          ffprobe_path, converter, fs, pc, req, resp, log, idx, wdir, ret, last>>

--------------------------------------------------------------------------
\* Requests and responses

Endpoints(a) ==
    IF a = "server"
    THEN {"/ping", "/", "/health", "/generate", "/analyze-audio",
          "/analyze-video", "/convert-audio"}
    ELSE {"/ping", "/", "/generate", "/analyze"}

PostEndpoints == {"/generate", "/analyze", "/analyze-audio", "/analyze-video",
                  "/convert-audio"}

\* A text field of the JSON body: absent, the empty string, or some text.
FieldValues == {"absent", "empty", "text"}

\* not x, for a text field
Falsy(f) == f \in {"absent", "empty"}

\* Lengths of the media field (base64 characters, or bytes of an uploaded
\* file) on both sides of every ceiling; -1 is a missing field, 0 an empty one.
MediaLens(a, ep) ==
    CASE ep = "/generate" /\ a = "server" ->
            {-1, 0, 100, MaxImageServer, MaxImageServer + 1}
      [] ep = "/generate" /\ a = "app" -> {-1, 0, 100, MaxImageApp, MaxImageApp + 1}
      [] ep = "/generate" -> {-1, 0, 100, MaxImageIndex, MaxImageIndex + 1}
      [] ep = "/analyze" /\ a = "app" ->
            {-1, 0, 100, MaxAudioFileApp, MaxAudioFileApp + 1}
      [] ep = "/analyze" -> {-1, 0, 100}
      [] ep = "/analyze-audio" -> {-1, 0, 100}
      [] ep = "/analyze-video" ->
            {-1, 0, MinVideoServer - 1, MinVideoServer, MaxVideoServer,
             MaxVideoServer + 1}
      [] ep = "/convert-audio" -> {-1, 0, 100, MaxAudioServer, MaxAudioServer + 1}
      [] OTHER -> {-1}

NoReq ==
    [ep |-> "none", method |-> "none", prompt |-> "absent", media |-> -1,
     ext |-> TRUE, good |-> TRUE]

\* The requests a client can send to application a.  prompt is the JSON field
\* "prompt"; media is the length of image_base64 / video_base64 /
\* birdnet_results / audio_data, or the size of the uploaded file; ext says
\* whether the uploaded file's extension is in ALLOWED_AUDIO_EXTENSIONS; good
\* says whether the media decodes (valid base64 of a decodable audio clip).
PostRequests(a, e) ==
    CASE e \in {"/generate", "/analyze-audio", "/analyze-video"} ->
            {[ep |-> e, method |-> "POST", prompt |-> p, media |-> m,
              ext |-> TRUE, good |-> TRUE] :
                p \in FieldValues, m \in MediaLens(a, e)}
      [] e = "/analyze" ->
            {[ep |-> e, method |-> "POST", prompt |-> "absent", media |-> m,
              ext |-> x, good |-> TRUE] :
                m \in MediaLens(a, e),
                x \in IF a = "app" THEN BOOLEAN ELSE {TRUE}}
      [] e = "/convert-audio" ->
            {[ep |-> e, method |-> "POST", prompt |-> "absent", media |-> m,
              ext |-> TRUE, good |-> g] :
                m \in MediaLens(a, e), g \in BOOLEAN}
      [] OTHER -> {}

Requests(a) ==
    {[ep |-> e, method |-> "OPTIONS", prompt |-> "absent", media |-> -1,
      ext |-> TRUE, good |-> TRUE] : e \in Endpoints(a)}
    \cup
    {[ep |-> e, method |-> "GET", prompt |-> "absent", media |-> -1,
      ext |-> TRUE, good |-> TRUE] : e \in Endpoints(a) \ PostEndpoints}
    \cup
    UNION {PostRequests(a, e) : e \in Endpoints(a) \cap PostEndpoints}

\* The /convert-audio requests the concurrent specification serves: a
\* convertible clip, and a body without audio_data.
ConvertRequests ==
    {r \in Requests("server") :
        /\ r.ep = "/convert-audio" /\ r.method = "POST"
        /\ r.media \in {-1, 100} /\ r.good}

NoResp == [status |-> 0, cors |-> FALSE, body |-> "none"]

\* cors(payload, code): the response every handler builds.  body names the
\* shape of the payload.
Cors(body, code) == [status |-> code, cors |-> TRUE, body |-> body]

\* An exception that leaves the view function: Flask answers with its own
\* 500 page, which is not built by cors().
Unhandled == [status |-> 500, cors |-> FALSE, body |-> "exception"]

--------------------------------------------------------------------------
\* The filesystem under the candidate directories

\* One candidate directory: whether it exists, the content of <dir>/ffmpeg
\* ("absent", "partial": created or truncated and not completely written,
\* "full": the complete working binary, "corrupt": completely written content
\* that is no working binary), its execute bit, and the directory the symlink
\* <dir>/ffprobe points into (None: no link).
EmptyDir(exists) ==
    [dir |-> exists, bin |-> "absent", exec |-> FALSE, probe |-> None]

\* os.path.exists(<d>/ffmpeg)
BinExists(d) == d \in Dirs /\ fs[d].dir /\ fs[d].bin # "absent"

\* os.path.exists(<d>/ffprobe): follows the link, so a dangling link does not
\* exist.
ProbeExists(d) == d \in Dirs /\ fs[d].dir /\ fs[d].probe # None /\ BinExists(fs[d].probe)

\* os.path.lexists(<d>/ffprobe): what makes os.symlink raise FileExistsError
ProbeLinkExists(d) == d \in Dirs /\ fs[d].dir /\ fs[d].probe # None

\* A file can be created in d.
Writable(d) == d \in Dirs /\ fs[d].dir /\ dirMode[d] = "rw"

\* Some thread holds <d>/ffmpeg open for writing (execve then fails, ETXTBSY).
OpenForWrite(d) == \E t \in Threads : wdir[t] = d

\* The binary at d can be executed at all.
Runnable(d) == BinExists(d) /\ fs[d].exec /\ fs[d].bin = "full" /\ ~OpenForWrite(d)

--------------------------------------------------------------------------
\* Outbound calls

\* One entry of a request's record of outbound calls: the service called, the
\* exception the transport raised ("none" when a response arrived), the HTTP
\* status of the response (0 when none arrived) and the body that came with it.
Reply(api, o) == [api |-> api, exc |-> o.exc, st |-> o.st, body |-> o.body]

\* A call whose body the caller does not parse as JSON
Call(api, exc, st) == Reply(api, [exc |-> exc, st |-> st, body |-> "opaque"])

Downloads(l) == Cardinality({i \in 1..Len(l) : l[i].api = "download"})

\* requests.get(ffmpeg_url, timeout=60) followed by raise_for_status()
\* (server.py lines 65-66): TRUE when the content arrived.
DownloadOutcomes == IF env = "faulty" THEN {TRUE, FALSE} ELSE {TRUE}

\* f.write(response.content) (server.py line 69): the disk may fill up.
WriteOutcomes == IF env = "faulty" THEN {TRUE, FALSE} ELSE {TRUE}

\* response.content (server.py line 69): what a download that returned 200
\* delivered.
DownloadedContents == IF env = "faulty" THEN {"full", "corrupt"} ELSE {"full"}

\* subprocess.run([_ffmpeg_path, "-version"], timeout=10) (server.py lines
\* 100-105): "zero" and "nonzero" are return codes, "raise" is an exception
\* (FileNotFoundError, PermissionError, OSError, TimeoutExpired).
SmokeOutcomes(d) ==
    IF ~BinExists(d) \/ ~fs[d].exec \/ OpenForWrite(d) THEN {"raise"}
    ELSE IF fs[d].bin \in {"partial", "corrupt"} THEN {"raise", "nonzero"}
    ELSE IF env = "faulty" THEN {"zero", "nonzero", "raise"}
    ELSE {"zero"}

--------------------------------------------------------------------------
\* ensure_ffmpeg (server.py lines 34-118), one action per statement that
\* reads or writes shared state.  The function runs on thread t, for the
\* module import or for a /convert-audio request.

\* "continue" (line 84, reached through "except Exception" at line 82): the
\* next candidate directory, or the end of the loop.
LoopContinue(t) ==
    IF idx[t] < Len(possible_paths)
    THEN /\ idx' = [idx EXCEPT ![t] = idx[t] + 1]
         /\ pc' = [pc EXCEPT ![t] = "ens_mkdir"]
    ELSE /\ idx' = [idx EXCEPT ![t] = 0]
         /\ pc' = [pc EXCEPT ![t] = "ens_check"]

\* "break" (lines 60 and 80)
LoopBreak(t) ==
    /\ idx' = [idx EXCEPT ![t] = 0]
    /\ pc' = [pc EXCEPT ![t] = "ens_check"]

\* "return v"
EnsReturn(t, v) ==
    /\ ret' = [ret EXCEPT ![t] = v]
    /\ pc' = [pc EXCEPT ![t] = "ens_ret"]

\* line 37: if _ffmpeg_initialized
AlreadyInitialized_never == FALSE
AlreadyInitialized == ffmpeg_initialized

\* lines 37-39
EnsEntry(t) ==
    /\ pc[t] = "ens_entry"
    /\ IF AlreadyInitialized
       THEN EnsReturn(t, "True") /\ UNCHANGED idx
       ELSE /\ idx' = [idx EXCEPT ![t] = 1]
            /\ pc' = [pc EXCEPT ![t] = "ens_mkdir"]
            /\ UNCHANGED ret
    /\ UNCHANGED <<envVars, phase, globVars, fs, reqVars, wdir, last>>

\* line 53: os.makedirs(ffmpeg_dir, exist_ok=True)
EnsMkdir(t) ==
    /\ pc[t] = "ens_mkdir"
    /\ LET d == possible_paths[idx[t]] IN
       IF dirMode[d] = "nomkdir"
       THEN LoopContinue(t) /\ UNCHANGED fs
       ELSE /\ fs' = [fs EXCEPT ![d].dir = TRUE]
            /\ pc' = [pc EXCEPT ![t] = "ens_setffmpeg"]
            /\ UNCHANGED idx
    /\ UNCHANGED <<envVars, phase, globVars, reqVars, wdir, ret, last>>

\* line 54: _ffmpeg_path = os.path.join(ffmpeg_dir, "ffmpeg")
EnsSetFfmpeg(t) ==
    /\ pc[t] = "ens_setffmpeg"
    /\ ffmpeg_path' = possible_paths[idx[t]]
    /\ pc' = [pc EXCEPT ![t] = "ens_setffprobe"]
    /\ UNCHANGED <<envVars, phase, ffmpeg_initialized, ffprobe_path, converter,
                   fs, reqVars, ensVars, last>>

\* line 55: _ffprobe_path = os.path.join(ffmpeg_dir, "ffprobe")
EnsSetFfprobe(t) ==
    /\ pc[t] = "ens_setffprobe"
    /\ ffprobe_path' = possible_paths[idx[t]]
    /\ pc' = [pc EXCEPT ![t] = "ens_exists"]
    /\ UNCHANGED <<envVars, phase, ffmpeg_initialized, ffmpeg_path, converter,
                   fs, reqVars, ensVars, last>>

\* lines 58-60: both files exist already
EnsExists(t) ==
    /\ pc[t] = "ens_exists"
    /\ IF BinExists(ffmpeg_path) /\ ProbeExists(ffprobe_path)
       THEN LoopBreak(t)
       ELSE pc' = [pc EXCEPT ![t] = "ens_get"] /\ UNCHANGED idx
    /\ UNCHANGED <<envVars, phase, globVars, fs, reqVars, wdir, ret, last>>

\* lines 64-66: the download
EnsGet(t) ==
    /\ pc[t] = "ens_get"
    /\ \E ok \in DownloadOutcomes :
        /\ log' = [log EXCEPT ![t] =
                     Append(@, Call("download", IF ok THEN "none" ELSE "RequestException",
                                    IF ok THEN 200 ELSE 0))]
        /\ IF ok
           THEN pc' = [pc EXCEPT ![t] = "ens_open"] /\ UNCHANGED idx
           ELSE LoopContinue(t)
    /\ UNCHANGED <<envVars, phase, globVars, fs, req, resp, wdir, ret, last>>

\* line 68: open(_ffmpeg_path, "wb") creates the file or truncates it
EnsOpen(t) ==
    /\ pc[t] = "ens_open"
    /\ LET d == ffmpeg_path IN
       IF Writable(d)
       THEN /\ fs' = [fs EXCEPT ![d].bin = "partial"]
            /\ wdir' = [wdir EXCEPT ![t] = d]
            /\ pc' = [pc EXCEPT ![t] = "ens_write"]
            /\ UNCHANGED idx
       ELSE LoopContinue(t) /\ UNCHANGED <<fs, wdir>>
    /\ UNCHANGED <<envVars, phase, globVars, reqVars, ret, last>>

\* line 69 and the end of the with block: write the content, close the file
EnsWrite(t) ==
    /\ pc[t] = "ens_write"
    /\ \E ok \in WriteOutcomes, content \in DownloadedContents :
        LET d == wdir[t] IN
        /\ wdir' = [wdir EXCEPT ![t] = None]
        /\ IF ok
           THEN /\ fs' = IF fs[d].bin # "absent"
                         THEN [fs EXCEPT ![d].bin = content] ELSE fs
                /\ pc' = [pc EXCEPT ![t] = "ens_linkchk"]
                /\ UNCHANGED idx
           ELSE LoopContinue(t) /\ UNCHANGED fs
    /\ UNCHANGED <<envVars, phase, globVars, reqVars, ret, last>>

\* line 72: if not os.path.exists(_ffprobe_path)
EnsLinkChk(t) ==
    /\ pc[t] = "ens_linkchk"
    /\ pc' = [pc EXCEPT ![t] =
                IF ProbeExists(ffprobe_path) THEN "ens_chmod1" ELSE "ens_symlink"]
    /\ UNCHANGED <<envVars, phase, globVars, fs, reqVars, ensVars, last>>

\* line 73: os.symlink(_ffmpeg_path, _ffprobe_path)
EnsSymlink(t) ==
    /\ pc[t] = "ens_symlink"
    /\ LET q == ffprobe_path IN
       IF Writable(q) /\ ~ProbeLinkExists(q)
       THEN /\ fs' = [fs EXCEPT ![q].probe = ffmpeg_path]
            /\ pc' = [pc EXCEPT ![t] = "ens_chmod1"]
            /\ UNCHANGED idx
       ELSE LoopContinue(t) /\ UNCHANGED fs
    /\ UNCHANGED <<envVars, phase, globVars, reqVars, wdir, ret, last>>

\* line 76: os.chmod(_ffmpeg_path, 0o755)
EnsChmod1(t) ==
    /\ pc[t] = "ens_chmod1"
    /\ LET d == ffmpeg_path IN
       IF BinExists(d)
       THEN /\ fs' = [fs EXCEPT ![d].exec = TRUE]
            /\ pc' = [pc EXCEPT ![t] = "ens_chmod2"]
            /\ UNCHANGED idx
       ELSE LoopContinue(t) /\ UNCHANGED fs
    /\ UNCHANGED <<envVars, phase, globVars, reqVars, wdir, ret, last>>

\* lines 77-80: os.chmod(_ffprobe_path, 0o755) follows the link; then break
EnsChmod2(t) ==
    /\ pc[t] = "ens_chmod2"
    /\ LET q == ffprobe_path IN
       IF ProbeExists(q)
       THEN /\ fs' = [fs EXCEPT ![fs[q].probe].exec = TRUE]
            /\ LoopBreak(t)
       ELSE LoopContinue(t) /\ UNCHANGED fs
    /\ UNCHANGED <<envVars, phase, globVars, reqVars, wdir, ret, last>>

\* lines 86-88: if not _ffmpeg_path or not os.path.exists(_ffmpeg_path)
EnsCheck(t) ==
    /\ pc[t] = "ens_check"
    /\ IF ffmpeg_path = None \/ ~BinExists(ffmpeg_path)
       THEN EnsReturn(t, "False")
       ELSE pc' = [pc EXCEPT ![t] = "ens_config"] /\ UNCHANGED ret
    /\ UNCHANGED <<envVars, phase, globVars, fs, reqVars, idx, wdir, last>>

\* lines 92-97: AudioSegment.converter = _ffmpeg_path
EnsConfig(t) ==
    /\ pc[t] = "ens_config"
    /\ converter' = ffmpeg_path
    /\ pc' = [pc EXCEPT ![t] = "ens_test"]
    /\ UNCHANGED <<envVars, phase, ffmpeg_initialized, ffmpeg_path, ffprobe_path,
                   fs, reqVars, ensVars, last>>

\* lines 107-118: what ensure_ffmpeg returns for an outcome of the smoke test
SmokeReturn_reraise(o) ==
    CASE o = "zero" -> "True" [] o = "nonzero" -> "False" [] OTHER -> "raised"
SmokeReturn(o) == IF o = "zero" THEN "True" ELSE "False"

\* lines 107-110: the flag is set when the return code is 0
SmokeSetsFlag_always(o) == TRUE
SmokeSetsFlag(o) == o = "zero"

\* lines 100-118: the smoke test
EnsTest(t) ==
    /\ pc[t] = "ens_test"
    /\ \E o \in SmokeOutcomes(ffmpeg_path) :
        /\ ffmpeg_initialized' = (ffmpeg_initialized \/ SmokeSetsFlag(o))
        /\ EnsReturn(t, SmokeReturn(o))
    /\ UNCHANGED <<envVars, phase, ffmpeg_path, ffprobe_path, converter, fs,
                   reqVars, idx, wdir, last>>

EnsureStep(t) ==
    \/ EnsEntry(t)
    \/ EnsMkdir(t)
    \/ EnsSetFfmpeg(t)
    \/ EnsSetFfprobe(t)
    \/ EnsExists(t)
    \/ EnsGet(t)
    \/ EnsOpen(t)
    \/ EnsWrite(t)
    \/ EnsLinkChk(t)
    \/ EnsSymlink(t)
    \/ EnsChmod1(t)
    \/ EnsChmod2(t)
    \/ EnsCheck(t)
    \/ EnsConfig(t)
    \/ EnsTest(t)

--------------------------------------------------------------------------
\* Module import

\* app.py lines 22-25 (raise EnvironmentError when the key is not set) and
\* index.py line 15 (no check): the import of a module without ffmpeg.
KeyRequired(a) == a = "app"

Startup ==
    /\ phase = "boot"
    /\ app # "server"
    /\ phase' = IF KeyRequired(app) /\ ~key THEN "crashed" ELSE "serving"
    /\ UNCHANGED <<envVars, globVars, fs, pc, reqVars, ensVars, last>>

\* server.py lines 120-122: the import calls ensure_ffmpeg()
StartupBegin ==
    /\ phase = "boot"
    /\ app = "server"
    /\ pc[MainThread] = "idle"
    /\ pc' = [pc EXCEPT ![MainThread] = "ens_entry"]
    /\ UNCHANGED <<envVars, phase, globVars, fs, reqVars, ensVars, last>>

\* server.py lines 123-126: either result is only logged
StartupEnd ==
    /\ phase = "boot"
    /\ pc[MainThread] = "ens_ret"
    /\ phase' = IF ret[MainThread] = "raised" THEN "crashed" ELSE "serving"
    /\ last' = [ret |-> ret[MainThread], dl |-> Downloads(log[MainThread])]
    /\ pc' = [pc EXCEPT ![MainThread] = "idle"]
    /\ ret' = [ret EXCEPT ![MainThread] = "none"]
    /\ log' = [log EXCEPT ![MainThread] = <<>>]
    /\ UNCHANGED <<envVars, globVars, fs, req, resp, idx, wdir>>

--------------------------------------------------------------------------
\* The life of a request

\* A worker thread takes a request from the set R.
Receive(t, R) ==
    /\ phase = "serving"
    /\ pc[t] = "idle"
    /\ \E r \in R :
        /\ req' = [req EXCEPT ![t] = r]
        /\ resp' = [resp EXCEPT ![t] = NoResp]
        /\ log' = [log EXCEPT ![t] = <<>>]
    /\ pc' = [pc EXCEPT ![t] = "handle"]
    /\ UNCHANGED <<envVars, phase, globVars, fs, ensVars, last>>

\* The handler returned r (or let an exception through).
Respond(t, r) ==
    /\ resp' = [resp EXCEPT ![t] = r]
    /\ pc' = [pc EXCEPT ![t] = "done"]

\* The response is sent; the thread is free again.
Complete(t) ==
    /\ pc[t] = "done"
    /\ pc' = [pc EXCEPT ![t] = "idle"]
    /\ req' = [req EXCEPT ![t] = NoReq]
    /\ resp' = [resp EXCEPT ![t] = NoResp]
    /\ log' = [log EXCEPT ![t] = <<>>]
    /\ ret' = [ret EXCEPT ![t] = "none"]
    /\ UNCHANGED <<envVars, phase, globVars, fs, idx, wdir, last>>

\* if request.method == "OPTIONS": return cors({})  (first statement of
\* every view function)
Options(t) ==
    /\ pc[t] = "handle"
    /\ req[t].method = "OPTIONS"
    /\ Respond(t, Cors("empty", 200))
    /\ UNCHANGED <<envVars, phase, globVars, fs, req, log, ensVars, last>>

\* ping and home of the three modules
PingHome(t) ==
    /\ pc[t] = "handle"
    /\ req[t].method = "GET"
    /\ req[t].ep \in {"/ping", "/"}
    /\ Respond(t, Cors("status", 200))
    /\ UNCHANGED <<envVars, phase, globVars, fs, req, log, ensVars, last>>

--------------------------------------------------------------------------
\* POST /convert-audio (server.py lines 151-202)

\* lines 156-157: the handler's first statement is the call of ensure_ffmpeg
ConvertBegin(t) ==
    /\ pc[t] = "handle"
    /\ req[t].ep = "/convert-audio"
    /\ req[t].method = "POST"
    /\ pc' = [pc EXCEPT ![t] = "ens_entry"]
    /\ UNCHANGED <<envVars, phase, globVars, fs, reqVars, ensVars, last>>

\* lines 157-161: the answer when ensure_ffmpeg returned False
ConvertUnavailable == Cors("error", 503)

\* lines 163-202, after ensure_ffmpeg returned v: validation, decoding,
\* conversion with the binary pydub was configured with
ConvertResponse(r, v, usable) ==
    CASE v = "raised" -> Cors("error_exc", 500)
      [] v = "False" -> ConvertUnavailable
      [] r.media <= 0 -> Cors("error", 400)
      [] r.media > MaxAudioServer -> Cors("error", 413)
      [] ~r.good -> Cors("error_exc", 500)
      [] ~usable -> Cors("error_exc", 500)
      [] OTHER -> Cors("wav", 200)

ConvertEnd(t) ==
    /\ pc[t] = "ens_ret"
    /\ req[t].ep = "/convert-audio"
    /\ Respond(t, ConvertResponse(req[t], ret[t], Runnable(converter)))
    /\ last' = [ret |-> ret[t], dl |-> Downloads(log[t])]
    /\ UNCHANGED <<envVars, phase, globVars, fs, req, log, ensVars>>

--------------------------------------------------------------------------
\* The platform clears the scratch directory.
Wipe ==
    /\ app = "server"
    /\ fs[ScratchDir].dir
    /\ fs' = [fs EXCEPT ![ScratchDir] = EmptyDir(FALSE)]
    /\ UNCHANGED <<envVars, phase, globVars, pc, reqVars, ensVars, last>>

--------------------------------------------------------------------------
\* The upstream services as the handlers see them

\* Text of a part: empty, whitespace only, or a sentence.
Texts == {"", " ", "A robin."}

\* not text.strip()
IsBlank(x) == x \in {"", " "}

\* A part of a candidate: a JSON object with or without the key "text".
Parts ==
    {[hasText |-> FALSE, text |-> ""]} \cup {[hasText |-> TRUE, text |-> x] : x \in Texts}

\* A part after the first: without text, or with a sentence.
LaterParts == {p \in Parts : ~p.hasText \/ ~IsBlank(p.text)}

PartSeqs ==
    {<<>>} \cup {<<p>> : p \in Parts} \cup {<<p, q>> : p \in Parts, q \in LaterParts}

\* A candidate: with or without "content", the content with or without "parts".
EmptyObject == [hasContent |-> FALSE, hasParts |-> FALSE, parts |-> <<>>]

Cands ==
    {EmptyObject, [hasContent |-> TRUE, hasParts |-> FALSE, parts |-> <<>>]}
    \cup {[hasContent |-> TRUE, hasParts |-> TRUE, parts |-> ps] : ps \in PartSeqs}

CandSeqs ==
    {<<>>} \cup {<<c>> : c \in Cands}
    \cup {<<c, d>> : c \in Cands,
                     d \in {[hasContent |-> TRUE, hasParts |-> TRUE, parts |-> <<p>>] :
                              p \in LaterParts}}

\* The body of an upstream response: not JSON at all, or a JSON object with or
\* without the key "candidates".
NotJson == [json |-> FALSE, hasCands |-> FALSE, cands |-> <<>>]

Bodies ==
    {NotJson, [json |-> TRUE, hasCands |-> FALSE, cands |-> <<>>]}
    \cup {[json |-> TRUE, hasCands |-> TRUE, cands |-> cs] : cs \in CandSeqs}

\* The statuses a response can carry: 2xx (200 and another), and 4xx/5xx.
OkStatuses == {200, 201}
ErrStatuses == {400, 403, 413, 429, 500, 503}

\* What requests.post gives back: an exception of the transport, or a
\* response with a status and a body.
Outcome(exc, st, body) == [exc |-> exc, st |-> st, body |-> body]

GeminiOutcomes ==
    {Outcome(x, 0, NotJson) : x \in {"Timeout", "ConnectionError"}}
    \cup {Outcome("none", s, NotJson) : s \in ErrStatuses}
    \cup {Outcome("none", s, b) : s \in OkStatuses, b \in Bodies}

\* Response.raise_for_status() raises HTTPError for a 4xx or 5xx status.
RaisesForStatus(st) == st >= 400 /\ st < 600

\* The truth value of a requests.Response object ("e.response if e.response
\* else ...", server.py lines 290-291 and 536-539): Response.__bool__ is
\* Response.ok, which is False for the very statuses raise_for_status raises on.
ResponseTruthy(st) == ~RaisesForStatus(st)

\* The result of an extraction: the text, or an IndexError.
Text(x) == [err |-> FALSE, text |-> x]
IndexError == [err |-> TRUE, text |-> ""]

PartText(p) == IF p.hasText THEN p.text ELSE ""

\* .get("candidates", [{}])[0].get("content", {}).get("parts", [{}])[0]
\* .get("text", "")   (app.py 89-95, 207-213; index.py 66-72, 151-157;
\* server.py 351-355)
ExtractChained(b) ==
    LET cs == IF b.hasCands THEN b.cands ELSE <<EmptyObject>> IN
    IF Len(cs) = 0 THEN IndexError
    ELSE LET c == cs[1]
             ps == IF c.hasContent /\ c.hasParts THEN c.parts
                   ELSE <<[hasText |-> FALSE, text |-> ""]>> IN
         IF Len(ps) = 0 THEN IndexError ELSE Text(PartText(ps[1]))

\* server.py lines 255-262 and 492-499: every level guarded by a truth test
ExtractGuarded(b) ==
    LET cs == IF b.hasCands THEN b.cands ELSE <<>> IN
    IF Len(cs) = 0 THEN ""
    ELSE LET c == cs[1]
             ps == IF c.hasContent /\ c.hasParts THEN c.parts ELSE <<>> IN
         IF Len(ps) = 0 THEN "" ELSE PartText(ps[1])

\* The first part of candidate c that has the key "text" (server.py 505-508)
FirstTextPart(c) ==
    LET is == {i \in 1..Len(c.parts) : c.parts[i].hasText} IN
    IF c.hasContent /\ c.hasParts /\ is # {}
    THEN Text(c.parts[CHOOSE i \in is : \A j \in is : i <= j].text)
    ELSE IndexError

\* server.py lines 503-510: the loop over the candidates, from candidate i on
RECURSIVE ScanFrom(_, _, _)
ScanFrom(cs, i, text) ==
    IF i > Len(cs) THEN text
    ELSE LET f == FirstTextPart(cs[i])
             t1 == IF f.err THEN text ELSE f.text IN
         IF t1 # "" THEN t1 ELSE ScanFrom(cs, i + 1, t1)

\* server.py lines 491-510: the guarded path, then the scan when it gave ""
ExtractScan(b) ==
    LET text == ExtractGuarded(b) IN
    IF text = "" /\ b.hasCands THEN ScanFrom(b.cands, 1, text) ELSE text

--------------------------------------------------------------------------
\* POST /generate

\* r.json() on a body that is not JSON raises requests' JSONDecodeError, a
\* RequestException in requests >= 2.27 and a plain ValueError before: which
\* one is a property of the installed library (j: it is a RequestException).
JsonErrorClasses == BOOLEAN

\* Local operations (stream seek, mkdtemp, file save) succeed, or may fail.
LocalOutcomes == IF env = "faulty" THEN {TRUE, FALSE} ELSE {TRUE}

\* The answer to a request the handler rejects before calling upstream, or
\* NoResp when it passes.
\* app.py lines 59-65
GenerateAppRejects(r) ==
    CASE Falsy(r.prompt) \/ r.media <= 0 -> Cors("error", 400)
      [] r.media > MaxImageApp -> Cors("error", 413)
      [] OTHER -> NoResp

\* index.py lines 42-45
GenerateIndexRejects(r) ==
    CASE Falsy(r.prompt) \/ r.media <= 0 -> Cors("error", 400)
      [] r.media > MaxImageIndex -> Cors("error", 413)
      [] OTHER -> NoResp

\* server.py lines 217-223
GenerateServerRejects(r) ==
    CASE Falsy(r.prompt) -> Cors("error", 400)
      [] r.media <= 0 -> Cors("error", 400)
      [] r.media > MaxImageServer -> Cors("error", 413)
      [] OTHER -> NoResp

\* app.py lines 86-109
GenerateAppAnswer(o, j) ==
    CASE o.exc # "none" -> Cors("error_exc", 502)
      [] RaisesForStatus(o.st) -> Cors("error_exc", 502)
      [] ~o.body.json -> Cors("error_exc", IF j THEN 502 ELSE 500)
      [] ExtractChained(o.body).err -> Cors("error_exc", 500)
      [] IsBlank(ExtractChained(o.body).text) -> Cors("error", 502)
      [] OTHER -> Cors("response", 200)

\* index.py lines 64-78
GenerateIndexAnswer(o) ==
    CASE o.exc # "none" -> Cors("error_exc", 500)
      [] RaisesForStatus(o.st) -> Cors("error_exc", 500)
      [] ~o.body.json -> Cors("error_exc", 500)
      [] ExtractChained(o.body).err -> Cors("error_exc", 500)
      [] IsBlank(ExtractChained(o.body).text) -> Cors("error", 502)
      [] OTHER -> Cors("response", 200)

\* server.py lines 291 and 536: status_code = e.response.status_code if
\* e.response else 500
HttpErrorStatus(st) == IF ResponseTruthy(st) THEN st ELSE 500

\* server.py lines 288-300
GenerateHttpError(st) ==
    LET status_code == HttpErrorStatus(st) IN
    CASE status_code = 429 -> Cors("error", 429)
      [] status_code = 403 -> Cors("error", 403)
      [] status_code = 503 -> Cors("error", 503)
      [] OTHER -> Cors("error", status_code)

\* server.py lines 248-306
GenerateServerAnswer(o) ==
    CASE o.exc = "Timeout" -> Cors("error", 504)
      [] o.exc # "none" -> Cors("error_exc", 500)
      [] RaisesForStatus(o.st) -> GenerateHttpError(o.st)
      [] ~o.body.json -> Cors("error_exc", 500)
      [] IsBlank(ExtractGuarded(o.body)) -> Cors("error_debug", 502)
      [] OTHER -> Cors("response", 200)

GenerateRejects(a, r) ==
    CASE a = "app" -> GenerateAppRejects(r)
      [] a = "index" -> GenerateIndexRejects(r)
      [] OTHER -> GenerateServerRejects(r)

GenerateAnswer(a, o, j) ==
    CASE a = "app" -> GenerateAppAnswer(o, j)
      [] a = "index" -> GenerateIndexAnswer(o)
      [] OTHER -> GenerateServerAnswer(o)

\* generate (app.py 49-109, index.py 32-78), generate_image (server.py 205-306)
Generate(t) ==
    /\ pc[t] = "handle"
    /\ req[t].ep = "/generate"
    /\ req[t].method = "POST"
    /\ IF GenerateRejects(app, req[t]) # NoResp
       THEN Respond(t, GenerateRejects(app, req[t])) /\ UNCHANGED log
       ELSE \E o \in GeminiOutcomes, j \in JsonErrorClasses :
              /\ log' = [log EXCEPT ![t] = Append(@, Reply("gemini", o))]
              /\ Respond(t, GenerateAnswer(app, o, j))
    /\ UNCHANGED <<envVars, phase, globVars, fs, req, ensVars, last>>

--------------------------------------------------------------------------
\* POST /analyze-audio (server.py lines 309-377)

\* lines 321-324
AnalyzeAudioRejects(r) ==
    CASE Falsy(r.prompt) -> Cors("error", 400)
      [] r.media <= 0 -> Cors("error", 400)
      [] OTHER -> NoResp

\* lines 347-377
AnalyzeAudioAnswer(o) ==
    CASE o.exc = "Timeout" -> Cors("error", 504)
      [] o.exc # "none" -> Cors("error", 503)
      [] RaisesForStatus(o.st) -> Cors("error", 503)
      [] ~o.body.json -> Cors("error", 503)
      [] ExtractChained(o.body).err -> Cors("error", 503)
      [] IsBlank(ExtractChained(o.body).text) -> Cors("error", 502)
      [] OTHER -> Cors("response", 200)

AnalyzeAudio(t) ==
    /\ pc[t] = "handle"
    /\ req[t].ep = "/analyze-audio"
    /\ req[t].method = "POST"
    /\ IF AnalyzeAudioRejects(req[t]) # NoResp
       THEN Respond(t, AnalyzeAudioRejects(req[t])) /\ UNCHANGED log
       ELSE \E o \in GeminiOutcomes :
              /\ log' = [log EXCEPT ![t] = Append(@, Reply("gemini", o))]
              /\ Respond(t, AnalyzeAudioAnswer(o))
    /\ UNCHANGED <<envVars, phase, globVars, fs, req, ensVars, last>>

--------------------------------------------------------------------------
\* POST /analyze-video (server.py lines 380-566)

\* lines 393-408
AnalyzeVideoRejects(r) ==
    CASE Falsy(r.prompt) -> Cors("error", 400)
      [] r.media <= 0 -> Cors("error", 400)
      [] r.media > MaxVideoServer -> Cors("error_size", 413)
      [] r.media < MinVideoServer -> Cors("error", 400)
      [] OTHER -> NoResp

\* lines 534-559
VideoHttpError(st) ==
    LET status_code == HttpErrorStatus(st) IN
    CASE status_code = 429 -> Cors("error", 429)
      [] status_code = 413 -> Cors("error", 413)
      [] status_code = 400 -> Cors("error_details", 400)
      [] OTHER -> Cors("error_details", status_code)

\* lines 488-529: the body of a response that was not raised on
VideoParse(b) ==
    CASE ~b.json -> Cors("error_exc", 500)
      [] IsBlank(ExtractScan(b)) -> Cors("error_debug", 502)
      [] OTHER -> Cors("response", 200)

\* lines 531-533 and 561-566: an exception of the transport
VideoTransportError(exc) ==
    IF exc = "Timeout" THEN Cors("error", 504) ELSE Cors("error_exc", 500)

\* lines 455-459: the first response makes the handler send the request again
\* in the alternative payload format
VideoRetries_anyerror(o) == o.exc = "none" /\ o.st # 200
VideoRetries(o) == o.exc = "none" /\ o.st # 200 /\ o.st = 400

\* lines 445-487 for the first call, when it is not sent again
VideoFirstAnswer(o) ==
    CASE o.exc # "none" -> VideoTransportError(o.exc)
      [] o.st = 200 -> VideoParse(o.body)
      [] RaisesForStatus(o.st) -> VideoHttpError(o.st)
      [] OTHER -> VideoParse(o.body)

\* lines 483-484 and on, for the second call
VideoSecondAnswer(o) ==
    CASE o.exc # "none" -> VideoTransportError(o.exc)
      [] RaisesForStatus(o.st) -> VideoHttpError(o.st)
      [] OTHER -> VideoParse(o.body)

AnalyzeVideo(t) ==
    /\ pc[t] = "handle"
    /\ req[t].ep = "/analyze-video"
    /\ req[t].method = "POST"
    /\ IF AnalyzeVideoRejects(req[t]) # NoResp
       THEN Respond(t, AnalyzeVideoRejects(req[t])) /\ UNCHANGED log
       ELSE \E o1 \in GeminiOutcomes :
              IF VideoRetries(o1)
              THEN \E o2 \in GeminiOutcomes :
                     /\ log' = [log EXCEPT ![t] =
                                  <<Reply("gemini", o1),
                                    Reply("gemini", o2)>>]
                     /\ Respond(t, VideoSecondAnswer(o2))
              ELSE /\ log' = [log EXCEPT ![t] = <<Reply("gemini", o1)>>]
                   /\ Respond(t, VideoFirstAnswer(o1))
    /\ UNCHANGED <<envVars, phase, globVars, fs, req, ensVars, last>>

--------------------------------------------------------------------------
\* GET /health (server.py lines 569-592): the probe's outcome goes into the
\* body, the status is always 200
Health(t) ==
    /\ pc[t] = "handle"
    /\ req[t].ep = "/health"
    /\ req[t].method = "GET"
    /\ \E o \in GeminiOutcomes :
         log' = [log EXCEPT ![t] = Append(@, Call("gemini_models", o.exc, o.st))]
    /\ Respond(t, Cors("status", 200))
    /\ UNCHANGED <<envVars, phase, globVars, fs, req, ensVars, last>>

--------------------------------------------------------------------------
\* POST /analyze

\* What the classifier gives back as JSON: not JSON, a JSON value that is not
\* an object, an object without predictions, an object with predictions.
ClassifierBodies == {"notjson", "list", "nopreds", "preds"}

\* The predictions of a classifier output, in the order of the output, each
\* given by its confidence score; at most MaxPreds of them.
MaxPreds == 6
Scores == {1, 2}
Predictions == UNION {[1..n -> Scores] : n \in 0..MaxPreds}

\* The predictions a classifier output of shape b can hold
PredictionsOf(b) == IF b = "preds" THEN Predictions \ {<<>>} ELSE {<<>>}

\* preds[:5] (index.py line 131), list(preds.items())[:5] (app.py line 175)
TopN == 5
FirstN(ps) == SubSeq(ps, 1, IF Len(ps) < TopN THEN Len(ps) ELSE TopN)

\* The context of the summarisation prompt (app.py lines 170-183, index.py
\* lines 129-134): the listed predictions, or the classifier's JSON as it is.
SummaryContext(b, ps) ==
    IF b = "preds" /\ ps # <<>>
    THEN [kind |-> "top", items |-> FirstN(ps)]
    ELSE [kind |-> "raw", items |-> <<>>]

\* The classification as an entry of the record of calls, with the
\* predictions it gave; the summarisation call, with the context it sent.
Classified(entry, ps) == entry @@ [preds |-> ps]
Summarise(o, ctx) == Reply("gemini", o) @@ [context |-> ctx]

\* The BirdNET web API as app.py sees it (requests.post, app.py line 158)
BirdnetOutcomes ==
    {Outcome(x, 0, "notjson") : x \in {"Timeout", "ConnectionError"}}
    \cup {Outcome("none", s, "notjson") : s \in ErrStatuses}
    \cup {Outcome("none", s, b) : s \in OkStatuses, b \in ClassifierBodies}

\* app.py lines 116-145: the checks before the first upstream call; seekOk is
\* whether audio_file.stream.seek/tell (lines 137-139, outside any try) worked
AnalyzeAppRejects(r, seekOk) ==
    CASE r.media < 0 -> Cors("error", 400)
      [] ~r.ext -> Cors("error", 400)
      [] ~seekOk -> Unhandled
      [] r.media > MaxAudioFileApp -> Cors("error", 413)
      [] OTHER -> NoResp

\* app.py lines 148-167: the classification failed
BirdnetFailure_unchecked(o, j) ==
    CASE o.exc # "none" -> Cors("error_exc", 502)
      [] o.body = "notjson" /\ ~RaisesForStatus(o.st) ->
            Cors("error_exc", IF j THEN 502 ELSE 500)
      [] OTHER -> NoResp
BirdnetFailure(o, j) ==
    CASE o.exc # "none" -> Cors("error_exc", 502)
      [] RaisesForStatus(o.st) -> Cors("error_exc", 502)
      [] o.body = "notjson" -> Cors("error_exc", IF j THEN 502 ELSE 500)
      [] OTHER -> NoResp

\* app.py lines 192-221: the summarisation call.  The summary is returned as
\* it is, blank or not.
SummaryAppAnswer(o, j) ==
    CASE o.exc # "none" -> Cors("error_exc", 502)
      [] RaisesForStatus(o.st) -> Cors("error_exc", 502)
      [] ~o.body.json -> Cors("error_exc", IF j THEN 502 ELSE 500)
      [] ExtractChained(o.body).err -> Cors("error_exc", 500)
      [] IsBlank(ExtractChained(o.body).text) -> Cors("raw_summary_blank", 200)
      [] OTHER -> Cors("raw_summary", 200)

\* analyze of app.py (lines 111-221)
AnalyzeApp(t) ==
    /\ pc[t] = "handle"
    /\ app = "app"
    /\ req[t].ep = "/analyze"
    /\ req[t].method = "POST"
    /\ \E seekOk \in LocalOutcomes :
        IF AnalyzeAppRejects(req[t], seekOk) # NoResp
        THEN Respond(t, AnalyzeAppRejects(req[t], seekOk)) /\ UNCHANGED log
        ELSE \E ob \in BirdnetOutcomes, j \in JsonErrorClasses :
               IF BirdnetFailure(ob, j) # NoResp
               THEN /\ log' = [log EXCEPT ![t] =
                                 <<Classified(Reply("birdnet", ob), <<>>)>>]
                    /\ Respond(t, BirdnetFailure(ob, j))
               ELSE \E og \in GeminiOutcomes, ps \in PredictionsOf(ob.body) :
                      /\ log' = [log EXCEPT ![t] =
                                   <<Classified(Reply("birdnet", ob), ps),
                                     Summarise(og, SummaryContext(ob.body, ps))>>]
                      /\ Respond(t, SummaryAppAnswer(og, j))
    /\ UNCHANGED <<envVars, phase, globVars, fs, req, ensVars, last>>

\* The local BirdNET-Analyzer run of index.py (lines 100-122): subprocess.run
\* raised, a non-zero return code, no output file, or an output file with one
\* of the classifier bodies.
AnalyzerOutcomes == {"raise", "nonzero", "nofile"} \cup ClassifierBodies

\* The run as an entry of the request's record of calls: subprocess.run
\* raised or returned with a return code (index.py lines 100-116), and what
\* the output file held.
AnalyzerRun(c) ==
    Reply("analyzer", [exc |-> IF c = "raise" THEN "Exception" ELSE "none",
                       st |-> IF c = "nonzero" THEN 1 ELSE 0,
                       body |-> c])

\* index.py lines 96-126: the run failed inside the try block
AnalyzerFailed(c) == c \in {"raise", "nonzero", "nofile", "notjson"}

\* index.py lines 143-161: the summarisation call
SummaryIndexAnswer(o) ==
    CASE o.exc # "none" -> Cors("error_exc", 502)
      [] RaisesForStatus(o.st) -> Cors("error_exc", 502)
      [] ~o.body.json -> Cors("error_exc", 502)
      [] ExtractChained(o.body).err -> Cors("error_exc", 502)
      [] IsBlank(ExtractChained(o.body).text) -> Cors("raw_summary_blank", 200)
      [] OTHER -> Cors("raw_summary", 200)

\* index.py lines 86-134, up to the summarisation call: saveOk is whether
\* tempfile.mkdtemp and audio_file.save (lines 90-92, outside any try) worked;
\* birdnet_json.get (line 129, outside any try) raises AttributeError when the
\* output is JSON but not an object
AnalyzeIndexBefore(r, saveOk, c) ==
    CASE r.media < 0 -> Cors("error", 400)
      [] ~saveOk -> Unhandled
      [] AnalyzerFailed(c) -> Cors("error_exc", 502)
      [] c = "list" -> Unhandled
      [] OTHER -> NoResp

\* analyze of index.py (lines 81-161)
AnalyzeIndex(t) ==
    /\ pc[t] = "handle"
    /\ app = "index"
    /\ req[t].ep = "/analyze"
    /\ req[t].method = "POST"
    /\ \E saveOk \in LocalOutcomes, c \in AnalyzerOutcomes :
        IF AnalyzeIndexBefore(req[t], saveOk, c) # NoResp
        THEN /\ Respond(t, AnalyzeIndexBefore(req[t], saveOk, c))
             /\ log' = [log EXCEPT ![t] =
                          IF req[t].media < 0 \/ ~saveOk THEN <<>>
                          ELSE <<Classified(AnalyzerRun(c), <<>>)>>]
        ELSE \E og \in GeminiOutcomes, ps \in PredictionsOf(c) :
               /\ log' = [log EXCEPT ![t] =
                            <<Classified(AnalyzerRun(c), ps),
                              Summarise(og, SummaryContext(c, ps))>>]
               /\ Respond(t, SummaryIndexAnswer(og))
    /\ UNCHANGED <<envVars, phase, globVars, fs, req, ensVars, last>>

--------------------------------------------------------------------------
\* Specifications

Init ==
    /\ app \in Apps
    /\ key \in BOOLEAN
    /\ env = "faulty"
    /\ dirMode \in {[d \in Dirs |-> "rw"],
                    [d \in Dirs |-> IF d = "/var/task/ffmpeg" THEN "nomkdir" ELSE "rw"],
                    [d \in Dirs |-> IF d = "/var/task/ffmpeg" THEN "nowrite" ELSE "rw"],
                    [d \in Dirs |-> "nomkdir"]}
    /\ app # "server" => dirMode = [d \in Dirs |-> "rw"]
    /\ phase = "boot"
    /\ ffmpeg_initialized = FALSE
    /\ ffmpeg_path = None
    /\ ffprobe_path = None
    /\ converter = None
    /\ fs = [d \in Dirs |-> EmptyDir(dirMode[d] = "nowrite")]
    /\ pc = [t \in Threads |-> "idle"]
    /\ req = [t \in Threads |-> NoReq]
    /\ resp = [t \in Threads |-> NoResp]
    /\ log = [t \in Threads |-> <<>>]
    /\ idx = [t \in Threads |-> 0]
    /\ wdir = [t \in Threads |-> None]
    /\ ret = [t \in Threads |-> "none"]
    /\ last = [ret |-> "none", dl |-> 0]

\* The handlers of one worker thread
Handle(t) ==
    \/ Options(t)
    \/ PingHome(t)
    \/ Health(t)
    \/ Generate(t)
    \/ AnalyzeApp(t)
    \/ AnalyzeIndex(t)
    \/ AnalyzeAudio(t)
    \/ AnalyzeVideo(t)
    \/ ConvertBegin(t)
    \/ ConvertEnd(t)
    \/ Complete(t)

\* One worker serving requests one after the other
Next ==
    \/ Startup
    \/ StartupBegin
    \/ StartupEnd
    \/ Receive(MainThread, Requests(app))
    \/ Handle(MainThread)
    \/ EnsureStep(MainThread)
    \/ Wipe

Spec == Init /\ [][Next]_vars

\* The server after an import whose ensure_ffmpeg call failed because every
\* download failed (the state Spec reaches then), serving on both worker
\* threads while the network, the disk and the binary are in order.
ConcInit ==
    /\ app = "server"
    /\ key = TRUE
    /\ env = "benign"
    /\ dirMode = [d \in Dirs |-> "rw"]
    /\ phase = "serving"
    /\ ffmpeg_initialized = FALSE
    /\ ffmpeg_path = possible_paths[Len(possible_paths)]
    /\ ffprobe_path = possible_paths[Len(possible_paths)]
    /\ converter = None
    /\ fs = [d \in Dirs |-> EmptyDir(TRUE)]
    /\ pc = [t \in Threads |-> "idle"]
    /\ req = [t \in Threads |-> NoReq]
    /\ resp = [t \in Threads |-> NoResp]
    /\ log = [t \in Threads |-> <<>>]
    /\ idx = [t \in Threads |-> 0]
    /\ wdir = [t \in Threads |-> None]
    /\ ret = [t \in Threads |-> "none"]
    /\ last = [ret |-> "False", dl |-> Len(possible_paths)]

\* Both worker threads serving /convert-audio
NextConc ==
    \E t \in Threads :
        \/ Receive(t, ConvertRequests)
        \/ ConvertBegin(t)
        \/ EnsureStep(t)
        \/ ConvertEnd(t)
        \/ Complete(t)

SpecConc == ConcInit /\ [][NextConc]_vars

\* ConcInit is a state of Spec but for the environment's mood.
ConcInitNotReached ==
    ~ /\ app = "server"
      /\ key = TRUE
      /\ dirMode = [d \in Dirs |-> "rw"]
      /\ phase = "serving"
      /\ ffmpeg_initialized = FALSE
      /\ ffmpeg_path = possible_paths[Len(possible_paths)]
      /\ ffprobe_path = possible_paths[Len(possible_paths)]
      /\ converter = None
      /\ fs = [d \in Dirs |-> EmptyDir(TRUE)]
      /\ pc = [t \in Threads |-> "idle"]
      /\ last = [ret |-> "False", dl |-> Len(possible_paths)]

--------------------------------------------------------------------------
\* Vocabulary of the properties

\* Thread t has answered its request (the response is in resp[t]).
Answered(t) == pc[t] = "done"

Posted(t, eps) == req[t].method = "POST" /\ req[t].ep \in eps

\* Thread t is inside ensure_ffmpeg.
InEnsure(t) ==
    pc[t] \in {"ens_entry", "ens_mkdir", "ens_setffmpeg", "ens_setffprobe",
               "ens_exists", "ens_get", "ens_open", "ens_write", "ens_linkchk",
               "ens_symlink", "ens_chmod1", "ens_chmod2", "ens_check",
               "ens_config", "ens_test"}

\* A required field of the request is missing or empty.  An uploaded file of
\* zero bytes counts as present.
MissingField(r) ==
    CASE r.ep \in {"/generate", "/analyze-audio", "/analyze-video"} ->
            Falsy(r.prompt) \/ r.media <= 0
      [] r.ep = "/analyze" -> r.media < 0
      [] r.ep = "/convert-audio" -> r.media <= 0
      [] OTHER -> FALSE

\* The ceiling the handler of r.ep in module a enforces (0: none).
Ceiling(a, ep) ==
    CASE ep = "/generate" /\ a = "app" -> MaxImageApp
      [] ep = "/generate" /\ a = "index" -> MaxImageIndex
      [] ep = "/generate" /\ a = "server" -> MaxImageServer
      [] ep = "/analyze" /\ a = "app" -> MaxAudioFileApp
      [] ep = "/analyze-video" -> MaxVideoServer
      [] ep = "/convert-audio" -> MaxAudioServer
      [] OTHER -> 0

Oversized(a, r) == Ceiling(a, r.ep) > 0 /\ r.media > Ceiling(a, r.ep)

\* Calls of the upstream inference APIs (not the download of the binary)
IsUpstream(c) == c.api \in {"gemini", "birdnet", "gemini_models"}
Failed(c) == c.exc # "none" \/ RaisesForStatus(c.st)
Non2xx(c) == c.exc = "none" /\ ~(c.st >= 200 /\ c.st < 300)
CallsOf(l, api) == Cardinality({i \in 1..Len(l) : l[i].api = api})

--------------------------------------------------------------------------
\* C1: a request with all required fields whose payload exceeds the
\* handler's ceiling is answered 413 and no outbound call (upstream request
\* or ffmpeg download) is made for it.  (Requests whose handler let an
\* exception escape are the subject of C3 and are left out here.)
C1_OversizeIs413NoCall ==
    \A t \in Threads :
        (/\ Answered(t)
         /\ req[t].method = "POST"
         /\ Oversized(app, req[t])
         /\ ~MissingField(req[t])
         /\ req[t].ext
         /\ resp[t].cors)
        => (resp[t].status = 413 /\ log[t] = <<>>)

\* C2: a POST request with a required field missing or empty is answered 400
\* and no outbound call is made for it, whatever the ffmpeg readiness flag.
C2_MissingIs400NoCall ==
    \A t \in Threads :
        (Answered(t) /\ req[t].method = "POST" /\ MissingField(req[t]))
        => (resp[t].status = 400 /\ log[t] = <<>>)

\* C3: every request ends with one response the handler built through
\* cors(); no failure of a step escapes the handler as an exception.
C3_EveryResponseThroughCors ==
    \A t \in Threads : Answered(t) => (resp[t] # NoResp /\ resp[t].cors)

--------------------------------------------------------------------------
\* C5: of two requests running ensure_ffmpeg at the same time, at most one
\* downloads the binary and writes the file: never have both callers
\* downloaded in their current call, and never do both hold the same file
\* open for writing.
C5_SingleDownloader ==
    \A t \in Threads : \A u \in Threads \ {t} :
        /\ ~(/\ InEnsure(t) /\ Downloads(log[t]) > 0
             /\ InEnsure(u) /\ Downloads(log[u]) > 0)
        /\ ~(wdir[t] # None /\ wdir[t] = wdir[u])

\* C6: concurrent calls race harmlessly.  Where a call run alone succeeds,
\* every call returns True, and once no call is running the flag is set and
\* both paths name one directory that holds a complete executable and its
\* ffprobe link.
C6_RaceHarmless ==
    /\ \A t \in Threads :
          pc[t] = "ens_ret" => (ret[t] = "True" /\ ffmpeg_initialized)
    /\ ((\A t \in Threads : ~InEnsure(t)) /\ ffmpeg_initialized)
          => /\ ffmpeg_path = ffprobe_path
             /\ Runnable(ffmpeg_path)
             /\ ProbeExists(ffprobe_path)

\* C7 as claimed: of two calls made one after the other, both return the same
\* value and together they download at most once.
C7_Idempotent ==
    \A t \in Threads :
        (pc[t] = "ens_ret" /\ last.ret # "none")
        => (ret[t] = last.ret /\ last.dl + Downloads(log[t]) <= 1)

\* C7 as amended: once a call of ensure_ffmpeg has returned True, every later
\* call returns True as well, downloads nothing and finds the flag set.
C7_IdempotentOnceReady ==
    \A t \in Threads :
        (pc[t] = "ens_ret" /\ last.ret = "True")
        => (ret[t] = "True" /\ Downloads(log[t]) = 0 /\ ffmpeg_initialized)

\* Reached: a second call returned after a first one had returned True.
C7_Witness ==
    \E t \in Threads :
        /\ pc[t] = "ens_ret"
        /\ req[t].ep = "/convert-audio"
        /\ last.ret = "True"
        /\ ret[t] = "True"

\* C8: ensure_ffmpeg returns a boolean whatever the directory creation, the
\* download, the write, the symlink, chmod and the smoke test do (the import
\* never dies of it), and a POST /convert-audio during which it returned
\* False is answered 503 by the handler's own response.
C8_NeverRaisesAnd503 ==
    /\ \A t \in Threads : pc[t] = "ens_ret" => ret[t] \in {"True", "False"}
    /\ (app = "server" => phase # "crashed")
    /\ \A t \in Threads :
          (Answered(t) /\ Posted(t, {"/convert-audio"}) /\ ret[t] # "True")
          => (ret[t] = "False" /\ resp[t] = Cors("error", 503))

\* Reached: a request with valid audio was answered 503 after the smoke test
\* of a downloaded binary failed.
C8_Witness ==
    \E t \in Threads :
        /\ Answered(t)
        /\ Posted(t, {"/convert-audio"})
        /\ req[t].media = 100
        /\ req[t].good
        /\ ret[t] = "False"
        /\ Downloads(log[t]) > 0
        /\ BinExists(ffmpeg_path)
        /\ resp[t].status = 503

\* C9: at the moment ensure_ffmpeg returns True the executable exists at
\* _ffmpeg_path.
C9_ReadyImpliesBinary ==
    [][\A t \in Threads :
          (pc[t] # "ens_ret" /\ pc'[t] = "ens_ret" /\ ret'[t] = "True")
          => BinExists(ffmpeg_path)']_vars

\* The last outbound call of a request
LastCall(l) == l[Len(l)]

\* C10: in server.py, when the generation API answers /generate or
\* /analyze-video with a non-2xx status, 429 is answered 429, 403 is answered
\* 403 (for /generate), and any other status is passed through or becomes 503.
C10_UpstreamStatusMapped ==
    \A t \in Threads :
        (/\ Answered(t)
         /\ app = "server"
         /\ Posted(t, {"/generate", "/analyze-video"})
         /\ log[t] # <<>>
         /\ Non2xx(LastCall(log[t])))
        => LET st == LastCall(log[t]).st IN
           CASE st = 429 -> resp[t].status = 429
             [] st = 403 /\ req[t].ep = "/generate" -> resp[t].status = 403
             [] OTHER -> resp[t].status \in {st, 503}

--------------------------------------------------------------------------
\* An outbound call of the request of thread t ran into its timeout.
TimedOut(t) == \E i \in 1..Len(log[t]) : IsUpstream(log[t][i]) /\ log[t][i].exc = "Timeout"

\* C11: a POST request during which a call of an upstream inference API
\* exceeded its timeout is answered 504, in all three modules.
C11_TimeoutIs504 ==
    \A t \in Threads :
        (Answered(t) /\ req[t].method = "POST" /\ TimedOut(t))
        => resp[t].status = 504

--------------------------------------------------------------------------
\* Some part of some candidate of body b carries text that is not blank.
HasUsableText(b) ==
    /\ b.json
    /\ b.hasCands
    /\ \E i \in 1..Len(b.cands) :
          /\ b.cands[i].hasContent
          /\ b.cands[i].hasParts
          /\ \E k \in 1..Len(b.cands[i].parts) :
                /\ b.cands[i].parts[k].hasText
                /\ ~IsBlank(b.cands[i].parts[k].text)

\* The call is one of the generation API that was answered 2xx with JSON.
GenerationOk(c) == c.api = "gemini" /\ c.exc = "none" /\ ~Non2xx(c) /\ c.body.json

\* C12: when the generation API's last answer to a POST request is a 2xx JSON
\* response in which no candidate part carries text that is not blank, the
\* handler answers 502.
C12_EmptyIs502 ==
    \A t \in Threads :
        (/\ Answered(t)
         /\ req[t].method = "POST"
         /\ log[t] # <<>>
         /\ GenerationOk(LastCall(log[t]))
         /\ ~HasUsableText(LastCall(log[t]).body))
        => resp[t].status = 502

--------------------------------------------------------------------------
\* What the payload of shape body embeds of the data that varies from run to
\* run of one request: "error_exc" is built with str(e) of the caught
\* exception (app.py lines 106, 109, 164, 167, 218, 221; index.py lines 78,
\* 126, 161; server.py lines 200, 305, 565), and str(e) of a requests
\* exception names the request URL with its ?key= parameter; "error_debug"
\* carries raw_response or counts taken from the upstream answer (server.py
\* lines 269-275 and 515-521).  The other shapes are fixed messages.
Embeds(body) ==
    CASE body = "error_exc" -> {"exception text"}
      [] body = "error_debug" -> {"upstream payload"}
      [] OTHER -> {}

\* C13: the body of an error response is a fixed message of its error kind:
\* it embeds no exception text (and with it no URL or API key) and nothing of
\* the upstream payload, so two runs of one request that differ only in
\* those have the same body.
C13_ErrorBodyFixed ==
    \A t \in Threads :
        (Answered(t) /\ resp[t].cors /\ resp[t].status >= 400)
        => Embeds(resp[t].body) = {}

--------------------------------------------------------------------------
\* C14: a process started without GEMINI_API_KEY serves no request and calls
\* no upstream API.
C14_NoKeyNoService ==
    ~key =>
        \A t \in Threads :
            /\ ~Answered(t)
            /\ \A i \in 1..Len(log[t]) : ~IsUpstream(log[t][i])

--------------------------------------------------------------------------
--------------------------------------------------------------------------
\* The call is a classification (the BirdNET web API of app.py, the
\* BirdNET-Analyzer run of index.py).
IsClassification(c) == c.api \in {"birdnet", "analyzer"}

\* The classification gave parsed JSON: no exception, a 2xx status or return
\* code 0, an output that is JSON.
ClassifiedOk(c) ==
    /\ IsClassification(c)
    /\ c.exc = "none"
    /\ ~RaisesForStatus(c.st)
    /\ c.st \in OkStatuses \cup {0}
    /\ c.body \in ClassifierBodies \ {"notjson"}

\* C16: in POST /analyze of app.py and index.py the generation API is called
\* only as the second call, after a classification that succeeded; after a
\* classification that failed it is not called and the answer is an error;
\* and a 200 answer carries the raw classification and the summary.
C16_ClassifyThenSummarise ==
    \A t \in Threads :
        (Answered(t) /\ Posted(t, {"/analyze"})) =>
            /\ \A i \in 1..Len(log[t]) :
                  log[t][i].api = "gemini" => (i = 2 /\ ClassifiedOk(log[t][1]))
            /\ (log[t] # <<>> /\ ~ClassifiedOk(log[t][1]))
                  => (Len(log[t]) = 1 /\ resp[t].status >= 400)
            /\ resp[t].status = 200
                  => (/\ resp[t].body \in {"raw_summary", "raw_summary_blank"}
                      /\ Len(log[t]) = 2
                      /\ log[t][2].api = "gemini")

\* Reached: a file was classified with predictions, the summary was
\* generated, and the answer is 200 with both.
C16_Witness ==
    \E t \in Threads :
        /\ Answered(t)
        /\ Posted(t, {"/analyze"})
        /\ Len(log[t]) = 2
        /\ log[t][1].body = "preds"
        /\ log[t][2].api = "gemini"
        /\ resp[t] = Cors("raw_summary", 200)

--------------------------------------------------------------------------
\* C17: in server.py a handler that extracts the generation text (/generate,
\* /analyze-audio, /analyze-video) declares a 2xx JSON response empty (502)
\* only if no part of any candidate carries text that is not blank: the text
\* at candidates[0].content.parts[0] or, failing that, the one found by
\* scanning all candidates and parts is what it returns.
C17_EmptyOnlyWithoutText ==
    \A t \in Threads :
        (/\ Answered(t)
         /\ app = "server"
         /\ Posted(t, {"/generate", "/analyze-audio", "/analyze-video"})
         /\ log[t] # <<>>
         /\ GenerationOk(LastCall(log[t]))
         /\ HasUsableText(LastCall(log[t]).body))
        => resp[t].status = 200

--------------------------------------------------------------------------
\* The number of entries of the sequence s that equal v
Count(s, v) == Cardinality({i \in 1..Len(s) : s[i] = v})

\* items are min(TopN, n) of the n predictions ps and no prediction left out
\* has a higher score than one listed.
AreHighest(items, ps) ==
    /\ Len(items) = (IF Len(ps) < TopN THEN Len(ps) ELSE TopN)
    /\ \E P \in SUBSET (1..Len(ps)) :
          /\ Cardinality(P) = Len(items)
          /\ \A v \in Scores :
                Count(items, v) = Cardinality({i \in P : ps[i] = v})
          /\ \A i \in P : \A k \in (1..Len(ps)) \ P : ps[i] >= ps[k]

\* C18: in POST /analyze the context sent for summarisation lists min(5, n)
\* of the classifier's n predictions, the ones with the highest confidence,
\* whatever their order in the classifier output; with no predictions the
\* context is the classifier's JSON as it is.
C18_TopFiveHighest ==
    \A t \in Threads :
        (Answered(t) /\ Posted(t, {"/analyze"}) /\ Len(log[t]) = 2) =>
            LET ps == log[t][1].preds
                ctx == log[t][2].context IN
            IF ps = <<>>
            THEN ctx.kind = "raw"
            ELSE ctx.kind = "top" /\ AreHighest(ctx.items, ps)

--------------------------------------------------------------------------
\* What a failed ensure_ffmpeg call at start-up leaves behind, all candidate
\* directories being writable: nothing but the directories (every download
\* failed); a partially written file in every directory (every write
\* failed); a corrupt binary, with its link and execute bit, in the first
\* directory (the smoke test failed).
Leftovers ==
    {[fs |-> [d \in Dirs |-> EmptyDir(TRUE)],
      path |-> possible_paths[Len(possible_paths)],
      converter |-> None,
      dl |-> Len(possible_paths)],
     [fs |-> [d \in Dirs |-> [EmptyDir(TRUE) EXCEPT !.bin = "partial"]],
      path |-> possible_paths[Len(possible_paths)],
      converter |-> possible_paths[Len(possible_paths)],
      dl |-> Len(possible_paths)],
     [fs |-> [d \in Dirs |->
                IF d = possible_paths[1]
                THEN [dir |-> TRUE, bin |-> "corrupt", exec |-> TRUE, probe |-> d]
                ELSE EmptyDir(FALSE)],
      path |-> possible_paths[1],
      converter |-> possible_paths[1],
      dl |-> 1]}

\* The server after an import whose ensure_ffmpeg call returned False, the
\* network, the disk and the downloaded binary being in order from now on.
RecInit ==
    /\ app = "server"
    /\ key = TRUE
    /\ env = "benign"
    /\ dirMode = [d \in Dirs |-> "rw"]
    /\ phase = "serving"
    /\ ffmpeg_initialized = FALSE
    /\ \E l \in Leftovers :
          /\ fs = l.fs
          /\ ffmpeg_path = l.path
          /\ ffprobe_path = l.path
          /\ converter = l.converter
          /\ last = [ret |-> "False", dl |-> l.dl]
    /\ pc = [t \in Threads |-> "idle"]
    /\ req = [t \in Threads |-> NoReq]
    /\ resp = [t \in Threads |-> NoResp]
    /\ log = [t \in Threads |-> <<>>]
    /\ idx = [t \in Threads |-> 0]
    /\ wdir = [t \in Threads |-> None]
    /\ ret = [t \in Threads |-> "none"]

\* One worker serving POST /convert-audio requests one after the other
NextRec ==
    \/ Receive(MainThread,
               {r \in Requests("server") : r.ep = "/convert-audio" /\ r.method = "POST"})
    \/ ConvertBegin(MainThread)
    \/ EnsureStep(MainThread)
    \/ ConvertEnd(MainThread)
    \/ Complete(MainThread)

\* Clients keep sending requests and the worker keeps running.
SpecRec == RecInit /\ [][NextRec]_vars /\ WF_vars(NextRec)

\* Every state of RecInit is a state of Spec but for the environment's mood.
RecInitNotReached ==
    ~ /\ app = "server"
      /\ key = TRUE
      /\ dirMode = [d \in Dirs |-> "rw"]
      /\ phase = "serving"
      /\ ffmpeg_initialized = FALSE
      /\ pc = [t \in Threads |-> "idle"]
      /\ \E l \in Leftovers :
            /\ fs = l.fs
            /\ ffmpeg_path = l.path
            /\ ffprobe_path = l.path
            /\ converter = l.converter
            /\ last = [ret |-> "False", dl |-> l.dl]
            /\ l.path = possible_paths[1]

\* C19: after ensure_ffmpeg returned False, downloads and the smoke test of a
\* freshly downloaded binary succeeding from then on, a later call of
\* ensure_ffmpeg returns True (and with the flag set POST /convert-audio is
\* no longer answered 503).
C19_Recovers ==
    <>(\E t \in Threads : pc[t] = "ens_ret" /\ ret[t] = "True" /\ ffmpeg_initialized)

=============================================================================
